---- MODULE Spec2Model ----
(***************************************************************************)
(* ScrapCo admin backend: the credential resolver (supabase/client.js),    *)
(* the admin authorization gate and the scrap-rate handlers                *)
(* (routes/admin.js), as a state machine over the remote store.            *)
(*                                                                         *)
(* Strings the code trims or lower-cases are sequences of one-character    *)
(* strings; messages and identifiers the code only passes on are plain     *)
(* strings.  Rates are integers (tenths of a currency unit per kg).        *)
(***************************************************************************)
EXTENDS Integers, Sequences, FiniteSets, TLC

\* Number of request slots (requests the run may hold, concurrently or not).
NReq == 2
\* Largest value of the millisecond clock read by new Date().
MaxClock == 2
\* Most rows the rate store holds before the first request of a sequential run.
MaxInitRows == 2
\* Most failures (returned errors, thrown exceptions) the identity verifier and
\* the data service inject in one run.
MaxFaults == 1

VARIABLES
    env,          \* process.env: variable name -> value (or unset)
    profiles,     \* table profiles: user id -> stored role (or no row)
    scrap_rates,  \* table scrap_rates: sequence of rows, in insertion order
    site_stats,   \* table site_stats: sequence of rows, in insertion order
    testimonials, \* table testimonials: sequence of rows, in insertion order
    now,          \* wall clock (ms) as last read by a handler
    pc,           \* per request: the await the handler is suspended at
    req,          \* per request: the inbound request
    principal,    \* per request: what requireAdmin returned (userId or null)
    userId,       \* per request: requireAdmin's local userId
    row,          \* per request: the row built at admin.js:240
    res,          \* per request: the responses sent, in order
    calls,        \* per request: the outbound calls made, in order
    outs,         \* per request: what its settled calls came back with, in order
    callers,      \* the requests callers send: operation and bearer token
    faults,       \* failures the collaborators may still inject in this run
    rin,          \* rows the store returned to getActiveRateByType, in order
    latest,       \* the Map getActiveRateByType returned
    resolved      \* the outcome of the last client construction

vars == <<env, profiles, scrap_rates, site_stats, testimonials, now, pc, req, principal, userId, row, res,
          calls, outs, callers, faults, rin, latest, resolved>>

Requests == 1..NReq

-----------------------------------------------------------------------------
(* JavaScript values and string operations                                 *)

NULL == "null"

UpperLetters == <<"A","B","C","D","E","F","G","H","I","J","K","L","M",
                  "N","O","P","Q","R","S","T","U","V","W","X","Y","Z">>
LowerLetters == <<"a","b","c","d","e","f","g","h","i","j","k","l","m",
                  "n","o","p","q","r","s","t","u","v","w","x","y","z">>

LowerChar(c) ==
    IF \E i \in 1..Len(UpperLetters) : UpperLetters[i] = c
    THEN LowerLetters[CHOOSE i \in 1..Len(UpperLetters) : UpperLetters[i] = c]
    ELSE c

\* String.prototype.toLowerCase
toLowerCase(s) == [i \in 1..Len(s) |-> LowerChar(s[i])]

IsSpace(c) == c \in {" ", "\t", "\n"}

\* String.prototype.trim
trim(s) ==
    LET keep == {i \in 1..Len(s) : ~IsSpace(s[i])}
        lo == CHOOSE i \in keep : \A j \in keep : i <= j
        hi == CHOOSE i \in keep : \A j \in keep : j <= i
    IN IF keep = {} THEN <<>> ELSE SubSeq(s, lo, hi)

S_true  == <<"t","r","u","e">>
S_admin == <<"a","d","m","i","n">>

-----------------------------------------------------------------------------
(* process.env and the credential resolver (supabase/client.js)            *)

Unset == [set |-> FALSE, s |-> <<>>]
Val(s) == [set |-> TRUE, s |-> s]

\* JS truthiness of a process.env value (undefined or a string).
Truthy(v) == v.set /\ v.s # <<>>

\* a || b
OrElse(a, b) == IF Truthy(a) THEN a ELSE b

Thrown(name) == [ok |-> FALSE, val |-> <<>>, missing |-> name]
Returned(s) == [ok |-> TRUE, val |-> s, missing |-> ""]

requireEnv(name) ==
    IF ~Truthy(env[name]) \/ trim(env[name].s) = <<>>
    THEN Thrown(name)
    ELSE Returned(env[name].s)

getAuthProjectEnv ==
    [url |-> OrElse(env["ADMIN_AUTH_SUPABASE_URL"], env["SUPABASE_URL"]),
     anonKey |-> OrElse(env["ADMIN_AUTH_SUPABASE_ANON_KEY"], env["SUPABASE_ANON_KEY"]),
     serviceKey |-> OrElse(env["ADMIN_AUTH_SUPABASE_SERVICE_ROLE_KEY"],
                           env["SUPABASE_SERVICE_ROLE_KEY"])]

getCustomerProjectEnv ==
    [url |-> OrElse(env["CUSTOMER_SUPABASE_URL"], getAuthProjectEnv.url),
     serviceKey |-> OrElse(env["CUSTOMER_SUPABASE_SERVICE_ROLE_KEY"],
                           getAuthProjectEnv.serviceKey)]

getVendorProjectEnv ==
    [url |-> OrElse(env["VENDOR_SUPABASE_URL"], getAuthProjectEnv.url),
     serviceKey |-> OrElse(env["VENDOR_SUPABASE_SERVICE_ROLE_KEY"],
                           getAuthProjectEnv.serviceKey)]

\* The check of the explicit variable at client.js:108 left out.
requireEnvFromPair_fallbackOnBlank(name, value) ==
    IF ~Truthy(value) \/ trim(value.s) = <<>>
    THEN Thrown(name)
    ELSE Returned(value.s)

requireEnvFromPair(name, value) ==
    IF env[name].set /\ trim(env[name].s) = <<>>
    THEN Thrown(name)
    ELSE IF ~Truthy(value) \/ trim(value.s) = <<>>
         THEN Thrown(name)
         ELSE Returned(value.s)

\* createClient(url, key, options): the handle, or the error thrown while its
\* arguments were evaluated (left to right).
createClient(url, key, jwt) ==
    IF ~url.ok THEN [ok |-> FALSE, url |-> <<>>, key |-> <<>>, jwt |-> NULL,
                     missing |-> url.missing]
    ELSE IF ~key.ok THEN [ok |-> FALSE, url |-> <<>>, key |-> <<>>, jwt |-> NULL,
                          missing |-> key.missing]
    ELSE [ok |-> TRUE, url |-> url.val, key |-> key.val, jwt |-> jwt, missing |-> ""]

createServiceClient ==
    createClient(requireEnv("SUPABASE_URL"),
                 requireEnv("SUPABASE_SERVICE_ROLE_KEY"), NULL)

createAuthServiceClient ==
    createClient(requireEnvFromPair("ADMIN_AUTH_SUPABASE_URL", getAuthProjectEnv.url),
                 requireEnvFromPair("ADMIN_AUTH_SUPABASE_SERVICE_ROLE_KEY",
                                    getAuthProjectEnv.serviceKey), NULL)

createCustomerServiceClient ==
    createClient(requireEnvFromPair("CUSTOMER_SUPABASE_URL", getCustomerProjectEnv.url),
                 requireEnvFromPair("CUSTOMER_SUPABASE_SERVICE_ROLE_KEY",
                                    getCustomerProjectEnv.serviceKey), NULL)

createVendorServiceClient ==
    createClient(requireEnvFromPair("VENDOR_SUPABASE_URL", getVendorProjectEnv.url),
                 requireEnvFromPair("VENDOR_SUPABASE_SERVICE_ROLE_KEY",
                                    getVendorProjectEnv.serviceKey), NULL)

createAnonClientWithJwt(jwt) ==
    createClient(requireEnvFromPair("ADMIN_AUTH_SUPABASE_URL", getAuthProjectEnv.url),
                 requireEnvFromPair("ADMIN_AUTH_SUPABASE_ANON_KEY",
                                    getAuthProjectEnv.anonKey), jwt)

-----------------------------------------------------------------------------
(* JSON request values and their conversions (admin.js:222-223)            *)

JUndefined == [t |-> "undefined"]
JNull == [t |-> "null"]
JNum(n) == [t |-> "number", n |-> n]
JStr(s) == [t |-> "string", s |-> s]
JBool(b) == [t |-> "boolean", b |-> b]
NaN == [t |-> "NaN"]

Digits == <<"0","1","2","3","4","5","6","7","8","9">>
IsDigit(c) == \E i \in 1..10 : Digits[i] = c
DigitVal(c) == (CHOOSE i \in 1..10 : Digits[i] = c) - 1

RECURSIVE ParseNat(_)
ParseNat(s) ==
    IF s = <<>> THEN 0
    ELSE 10 * ParseNat(SubSeq(s, 1, Len(s) - 1)) + DigitVal(s[Len(s)])

RECURSIVE NatToStr(_)
NatToStr(n) ==
    IF n < 10 THEN <<Digits[n + 1]>>
    ELSE NatToStr(n \div 10) \o <<Digits[(n % 10) + 1]>>

\* v || '' is '' for undefined, null, 0, NaN, false and ''.
JsTruthy(v) ==
    CASE v.t = "number" -> v.n # 0
      [] v.t = "string" -> v.s # <<>>
      [] v.t = "boolean" -> v.b
      [] OTHER -> FALSE

\* String(v || '')
StringOrEmpty(v) ==
    IF ~JsTruthy(v) THEN <<>>
    ELSE CASE v.t = "string" -> v.s
           [] v.t = "boolean" -> S_true
           [] v.t = "number" ->
                IF v.n < 0 THEN <<"-">> \o NatToStr(-v.n) ELSE NatToStr(v.n)

\* Number(v): undefined and unparsable strings are NaN, null and '' are 0.
Number(v) ==
    CASE v.t = "number" -> v
      [] v.t = "boolean" -> JNum(IF v.b THEN 1 ELSE 0)
      [] v.t = "null" -> JNum(0)
      [] v.t = "string" ->
            LET s == trim(v.s)
                neg == s # <<>> /\ s[1] = "-"
                body == IF neg THEN SubSeq(s, 2, Len(s)) ELSE s
            IN IF s = <<>> THEN JNum(0)
               ELSE IF body # <<>> /\ \A i \in 1..Len(body) : IsDigit(body[i])
                    THEN JNum(IF neg THEN -ParseNat(body) ELSE ParseNat(body))
                    ELSE NaN
      [] OTHER -> NaN

NumberIsFinite(x) == x.t = "number"

-----------------------------------------------------------------------------
(* The collaborators: the identity verifier and the remote store           *)

\* What a call to a collaborator comes back with: data, a returned error
\* ({error}) or a rejected promise.  Failures draw on the run's fault budget.
Outcome(k, uid, msg) == [k |-> k, userId |-> uid, msg |-> msg, fault |-> FALSE]

FaultOutcomes ==
    IF faults > 0
    THEN {[k |-> "error", userId |-> NULL, msg |-> "upstream rejected the query",
           fault |-> TRUE],
          [k |-> "throw", userId |-> NULL, msg |-> "fetch failed", fault |-> TRUE]}
    ELSE {}

\* The issuer's session table: the user a bearer token was issued to.
TokenUser(jwt) ==
    CASE jwt = "tok-admin" -> "u-admin"
      [] jwt = "tok-user" -> "u-user"
      [] jwt = "tok-norow" -> "u-norow"
      [] jwt = "tok-norole" -> "u-norole"
      [] OTHER -> NULL

\* anon.auth.getUser(): data for a live token, {error} for any other token,
\* possibly data without a user, possibly a transport failure.
GetUserOutcomes(jwt) ==
    (IF TokenUser(jwt) # NULL
     THEN {Outcome("data", TokenUser(jwt), "")}
     ELSE {Outcome("error", NULL, "invalid JWT"), Outcome("data", NULL, "")})
    \cup FaultOutcomes

NoRow == [found |-> FALSE, role |-> Unset]

\* from('profiles').select('role').eq('id', userId).maybeSingle()
StoreOutcomes == {Outcome("data", NULL, "")} \cup FaultOutcomes

\* Every active row updated, whatever its commodity.
UpdateDeactivate_allCommodities(rows, id) ==
    [i \in 1..Len(rows) |-> [rows[i] EXCEPT !.is_active = FALSE]]

\* Only the first matching row updated.
UpdateDeactivate_firstOnly(rows, id) ==
    [i \in 1..Len(rows) |->
        IF /\ rows[i].scrap_type_id = id /\ rows[i].is_active
           /\ \A j \in 1..(i - 1) : ~(rows[j].scrap_type_id = id /\ rows[j].is_active)
        THEN [rows[i] EXCEPT !.is_active = FALSE]
        ELSE rows[i]]

\* update({is_active: false}).eq('scrap_type_id', id).eq('is_active', true)
UpdateDeactivate(rows, id) ==
    [i \in 1..Len(rows) |->
        IF rows[i].scrap_type_id = id /\ rows[i].is_active
        THEN [rows[i] EXCEPT !.is_active = FALSE]
        ELSE rows[i]]

\* insert([row])
InsertRow_notApplied(rows, r) == rows

InsertRow(rows, r) == Append(rows, r)

\* select(...).eq('is_active', true): the matching rows
ActiveIdx(rows) == {i \in 1..Len(rows) : rows[i].is_active}

\* The orders in which the store may return the rows with indexes idx (the
\* query has no ORDER BY).
Orders(idx) ==
    {f \in [1..Cardinality(idx) -> idx] :
        \A i, j \in 1..Cardinality(idx) : i # j => f[i] # f[j]}

ActiveOf(rows, id) == {i \in ActiveIdx(rows) : rows[i].scrap_type_id = id}

-----------------------------------------------------------------------------
(* Rows, requests, responses                                               *)

\* effective_from: a timestamp (ms since the epoch, > 0) or absent.
NoStamp == [set |-> FALSE, t |-> 0]
Stamp(t) == [set |-> TRUE, t |-> t]

\* x ? new Date(x) : new Date(0)
DateOf(e) == IF e.set THEN e.t ELSE 0

RateRow(id, rate, active, ef) ==
    [scrap_type_id |-> id, rate_per_kg |-> rate, is_active |-> active,
     effective_from |-> ef]

IdCu == <<"c","u">>
IdFe == <<"f","e">>

NoBody == [scrapTypeId |-> JUndefined, ratePerKg |-> JUndefined]
NoReq == [kind |-> "none", bearer |-> NULL, body |-> NoBody]
NoRowBuilt == RateRow(<<>>, 0, FALSE, NoStamp)

Inbound(kind, bearer) == [kind |-> kind, bearer |-> bearer, body |-> NoBody]

Kinds == {"POST /scrap-rates", "GET /scrap-types"}

\* Authorization headers of the inbound requests: none, or Bearer <token>.
Bearers == {NULL, "tok-admin", "tok-user", "tok-norow", "tok-norole", "tok-bad"}

\* Bodies of POST /scrap-rates.
RateBodies ==
    {[scrapTypeId |-> JStr(IdCu), ratePerKg |-> q] : q \in {JNum(5), JStr(<<"7">>)}}
    \cup {[scrapTypeId |-> JStr(<<" ">> \o IdFe \o <<" ">>), ratePerKg |-> JNum(5)]}
    \cup {[scrapTypeId |-> i, ratePerKg |-> JNum(5)] :
            i \in {JUndefined, JStr(<<" ", " ">>)}}
    \cup {[scrapTypeId |-> JStr(IdCu), ratePerKg |-> q] :
            q \in {JUndefined, JNum(-1), JNum(0), JStr(<<"x">>)}}

\* Rows of site_stats and testimonials (005_site_content_tables.sql).  Nullable
\* columns hold JNull or a value; timestamps are instants of the store's clock.
StatRow(id, label, value, sort_order, is_active, t) ==
    [id |-> id, label |-> label, value |-> value, sort_order |-> sort_order,
     is_active |-> is_active, created_at |-> t, updated_at |-> t]

TestimonialRow(id, name, role, quote, rating, sort_order, is_active, t) ==
    [id |-> id, name |-> name, role |-> role, quote |-> quote, rating |-> rating,
     sort_order |-> sort_order, is_active |-> is_active, created_at |-> t,
     updated_at |-> t]

SiteKinds ==
    {"POST /site-stats", "PATCH /site-stats/:id", "POST /testimonials",
     "PATCH /testimonials/:id"}

\* Bodies of POST /site-stats.
StatPostBodies ==
    [label : {JUndefined, JStr(<<" ">>), JStr(<<" ", "k">>)},
     value : {JStr(<<>>), JStr(<<"9">>)},
     sortOrder : {JUndefined, JStr(<<"x">>), JNum(2)},
     isActive : {JUndefined, JNum(0)}]

\* Requests PATCH /site-stats/:id: the :id parameter with the body.  Every
\* combination of fields for an existing row; the bare and the one-field body
\* for an id that matches no row and for a blank id.
StatPatchBodies ==
    [id : {<<" ", "1">>},
     label : {JUndefined, JNull, JStr(<<" ", "m">>)},
     value : {JUndefined, JStr(<<" ">>)},
     sortOrder : {JUndefined, JNull, JStr(<<"x">>), JNum(7)},
     isActive : {JUndefined, JBool(FALSE)}]
    \cup [id : {<<"9">>, <<" ">>},
          label : {JUndefined, JStr(<<" ", "m">>)},
          value : {JUndefined}, sortOrder : {JUndefined}, isActive : {JUndefined}]

\* Bodies of POST /testimonials.
TestimonialPostBodies ==
    [name : {JUndefined, JStr(<<"n">>)},
     quote : {JStr(<<" ">>), JStr(<<"q", " ">>)},
     role : {JUndefined, JStr(<<" ">>)},
     rating : {JUndefined, JNum(0), JStr(<<"5">>)},
     sortOrder : {JUndefined, JStr(<<"x">>)},
     isActive : {JUndefined}]

\* Requests PATCH /testimonials/:id.
TestimonialPatchBodies ==
    [id : {<<"2">>},
     name : {JUndefined, JStr(<<>>)},
     quote : {JUndefined, JStr(<<" ", "r">>)},
     role : {JUndefined, JStr(<<" ">>)},
     rating : {JUndefined, JNull, JNum(1), JNum(6)},
     sortOrder : {JUndefined},
     isActive : {JUndefined, JStr(<<>>)}]
    \cup [id : {<<"9">>, <<" ">>},
          name : {JUndefined}, quote : {JUndefined}, role : {JUndefined},
          rating : {JUndefined, JNum(3)}, sortOrder : {JUndefined},
          isActive : {JUndefined}]

Bodies(kind) ==
    CASE kind = "POST /scrap-rates" -> RateBodies
      [] kind = "POST /site-stats" -> StatPostBodies
      [] kind = "PATCH /site-stats/:id" -> StatPatchBodies
      [] kind = "POST /testimonials" -> TestimonialPostBodies
      [] kind = "PATCH /testimonials/:id" -> TestimonialPatchBodies
      [] OTHER -> {NoBody}

\* What a handler step does to its own request: where it suspends next, the
\* responses it sends and the outbound calls it makes.
Eff(pcv, send, call) == [pc |-> pcv, send |-> send, call |-> call]
Response(status, error) == [status |-> status, error |-> error]
Deny(status, error) == Eff("done", <<Response(status, error)>>, <<>>)
Reply(status) == Eff("done", <<Response(status, <<>>)>>, <<>>)
WithCalls(call, e) == [e EXCEPT !.call = call \o @]
MissingEnv(name) == <<"Missing required env var: ", name>>

-----------------------------------------------------------------------------
(* The admin authorization gate (admin.js:8-74)                            *)

EnvStr(name) == IF Truthy(env[name]) THEN env[name].s ELSE <<>>

isAdminPortalAllowed ==
    \/ toLowerCase(EnvStr("ALLOW_ADMIN_PORTAL")) = S_true
    \/ toLowerCase(EnvStr("ALLOW_DEV_BYPASS")) = S_true

\* supabase/auth.js: the token of an "Authorization: Bearer <token>" header,
\* null when the header is absent.
getBearerToken(rq) == rq.bearer

\* The token check at admin.js:27 left out.
requireAdmin_enter_noTokenCheck(rq) ==
    IF ~isAdminPortalAllowed
    THEN Deny(403, <<"Admin portal is disabled on server">>)
    ELSE WithCalls(<<"getBearerToken">>,
            IF ~createAnonClientWithJwt(getBearerToken(rq)).ok
            THEN Deny(500, MissingEnv(createAnonClientWithJwt(getBearerToken(rq)).missing))
            ELSE Eff("getUser", <<>>, <<"auth.getUser">>))

\* admin.js:24-35: up to the await of anon.auth.getUser()
requireAdmin_enter(rq) ==
    IF ~isAdminPortalAllowed
    THEN Deny(403, <<"Admin portal is disabled on server">>)
    ELSE WithCalls(<<"getBearerToken">>,
            IF getBearerToken(rq) = NULL
            THEN Deny(401, <<"Missing Authorization: Bearer <token>">>)
            ELSE IF ~createAnonClientWithJwt(getBearerToken(rq)).ok
                 THEN Deny(500, MissingEnv(createAnonClientWithJwt(getBearerToken(rq)).missing))
                 ELSE Eff("getUser", <<>>, <<"auth.getUser">>))

\* A thrown verification failure answered like a rejected credential.
requireAdmin_afterGetUser_throwAs401(o) ==
    CASE o.k \in {"throw", "error"} -> Deny(401, <<"Invalid or expired token">>)
      [] OTHER ->
            IF o.userId = NULL
            THEN Deny(401, <<"Invalid or expired token">>)
            ELSE IF ~createServiceClient.ok
                 THEN Deny(500, MissingEnv(createServiceClient.missing))
                 ELSE Eff("roleLookup", <<>>, <<"profiles.select">>)

\* admin.js:35-57: from the result of getUser() to the await of the role lookup
requireAdmin_afterGetUser(o) ==
    CASE o.k = "throw" -> Deny(500, <<o.msg>>)
      [] o.k = "error" -> Deny(401, <<"Invalid or expired token">>)
      [] OTHER ->
            IF o.userId = NULL
            THEN Deny(401, <<"Invalid or expired token">>)
            ELSE IF ~createServiceClient.ok
                 THEN Deny(500, MissingEnv(createServiceClient.missing))
                 ELSE Eff("roleLookup", <<>>, <<"profiles.select">>)

\* String(profile?.role || '')
RoleStr(profile) ==
    IF profile.found /\ Truthy(profile.role) THEN profile.role.s ELSE <<>>

\* Any user with a profile row admitted.
requireAdmin_afterRoleLookup_anyProfile(o, profile) ==
    CASE o.k = "throw" -> Deny(500, <<o.msg>>)
      [] o.k = "error" -> Deny(400, <<o.msg>>)
      [] OTHER ->
            IF ~profile.found
            THEN Deny(403, <<"Admin access required">>)
            ELSE Eff("admitted", <<>>, <<>>)

\* admin.js:59-73: from the result of the role lookup to the return
requireAdmin_afterRoleLookup(o, profile) ==
    CASE o.k = "throw" -> Deny(500, <<o.msg>>)
      [] o.k = "error" -> Deny(400, <<o.msg>>)
      [] OTHER ->
            IF toLowerCase(RoleStr(profile)) # S_admin
            THEN Deny(403, <<"Admin access required">>)
            ELSE Eff("admitted", <<>>, <<>>)

-----------------------------------------------------------------------------
(* getActiveRateByType (admin.js:76-96)                                    *)

EmptyMap == [k \in {} |-> NoRowBuilt]

\* latest.set(r.scrap_type_id, r)
MapSet(m, k, v) == [x \in DOMAIN m \cup {k} |-> IF x = k THEN v ELSE m[x]]

\* The row seen last kept, whatever its timestamp.
keepLater_lastSeen(m, r) == MapSet(m, r.scrap_type_id, r)

\* One turn of the loop at admin.js:85-94.
keepLater(m, r) ==
    IF r.scrap_type_id \notin DOMAIN m
    THEN MapSet(m, r.scrap_type_id, r)
    ELSE IF DateOf(r.effective_from) >= DateOf(m[r.scrap_type_id].effective_from)
         THEN MapSet(m, r.scrap_type_id, r)
         ELSE m

RECURSIVE getActiveRateByType(_)
getActiveRateByType(data) ==
    IF data = <<>> THEN EmptyMap
    ELSE keepLater(getActiveRateByType(SubSeq(data, 1, Len(data) - 1)),
                   data[Len(data)])

-----------------------------------------------------------------------------
(* POST /scrap-rates (admin.js:218-262), GET /scrap-types (admin.js:132-162) *)

scrapTypeIdOf(body) == trim(StringOrEmpty(body.scrapTypeId))
ratePerKgOf(body) == Number(body.ratePerKg)

\* ratePerKg < 0 for ratePerKg <= 0.
validRate_zeroAllowed(q) == NumberIsFinite(q) /\ q.n >= 0

\* admin.js:225-228
validRate(q) == NumberIsFinite(q) /\ q.n > 0

\* admin.js:222-237: from the gate's return to the await of the deactivation
postScrapRates_enter(body) ==
    IF scrapTypeIdOf(body) = <<>>
    THEN Deny(400, <<"scrapTypeId is required">>)
    ELSE IF ~validRate(ratePerKgOf(body))
         THEN Deny(400, <<"ratePerKg must be a positive number">>)
         ELSE IF ~createServiceClient.ok
              THEN Deny(500, MissingEnv(createServiceClient.missing))
              ELSE Eff("deactivate", <<>>, <<"scrap_rates.update">>)

\* admin.js:137-142: from the gate's return to the await of the types query
getScrapTypes_enter ==
    IF ~createServiceClient.ok
    THEN Deny(500, MissingEnv(createServiceClient.missing))
    ELSE Eff("selectTypes", <<>>, <<"scrap_types.select">>)

\* v !== undefined
Present(v) == v.t # "undefined"

\* Boolean(v)
Boolean(v) == JsTruthy(v)

\* v === undefined ? null : Number(v)   (admin.js:300, 425, 426)
NumberOrNullIfUndefined(v) == IF Present(v) THEN Number(v) ELSE JNull

\* v === null ? null : Number(v)   (admin.js:347, 487, 494)
NumberOrNullIfNull(v) == IF v.t = "null" THEN JNull ELSE Number(v)

\* x !== null && !Number.isFinite(x) rejects (admin.js:305, 348, 434, 495)
validSortOrder(x) == x.t = "null" \/ NumberIsFinite(x)

\* admin.js:431, 488
validRating(x) == x.t = "null" \/ (NumberIsFinite(x) /\ x.n >= 1 /\ x.n <= 5)

\* String(req.params.id || '').trim()   (admin.js:340, 479)
idOf(body) == trim(body.id)

\* admin.js:298-301, 311: the row POST /site-stats sends to the store
statOf(body) ==
    [label |-> trim(StringOrEmpty(body.label)),
     value |-> trim(StringOrEmpty(body.value)),
     sort_order |-> NumberOrNullIfUndefined(body.sortOrder),
     is_active |-> IF Present(body.isActive) THEN Boolean(body.isActive) ELSE TRUE]

\* admin.js:303-316: from the gate's return to the await of the insert
postSiteStats_enter(body) ==
    IF statOf(body).label = <<>> THEN Deny(400, <<"label is required">>)
    ELSE IF statOf(body).value = <<>> THEN Deny(400, <<"value is required">>)
    ELSE IF ~validSortOrder(statOf(body).sort_order)
         THEN Deny(400, <<"sortOrder must be a number">>)
    ELSE IF ~createServiceClient.ok
         THEN Deny(500, MissingEnv(createServiceClient.missing))
    ELSE Eff("insertStat", <<>>, <<"site_stats.insert">>)

\* admin.js:343-353: the patch, a value for each field present in the body
statPatch(body) ==
    [f \in {g \in {"label", "value", "sort_order", "is_active"} :
              CASE g = "label" -> Present(body.label)
                [] g = "value" -> Present(body.value)
                [] g = "sort_order" -> Present(body.sortOrder)
                [] OTHER -> Present(body.isActive)} |->
        CASE f = "label" -> trim(StringOrEmpty(body.label))
          [] f = "value" -> trim(StringOrEmpty(body.value))
          [] f = "sort_order" -> NumberOrNullIfNull(body.sortOrder)
          [] OTHER -> Boolean(body.isActive)]

\* admin.js:340-366: from the gate's return to the await of the update
patchSiteStats_enter(body) ==
    IF idOf(body) = <<>> THEN Deny(400, <<"id is required">>)
    ELSE IF Present(body.sortOrder)
            /\ ~validSortOrder(NumberOrNullIfNull(body.sortOrder))
         THEN Deny(400, <<"sortOrder must be a number">>)
    ELSE IF DOMAIN statPatch(body) = {} THEN Deny(400, <<"No fields to update">>)
    ELSE IF ~createServiceClient.ok
         THEN Deny(500, MissingEnv(createServiceClient.missing))
    ELSE Eff("updateStat", <<>>, <<"site_stats.update">>)

\* admin.js:422-427, 440-447: the row POST /testimonials sends to the store
testimonialOf(body) ==
    [name |-> trim(StringOrEmpty(body.name)),
     quote |-> trim(StringOrEmpty(body.quote)),
     role |-> IF Present(body.role) /\ trim(StringOrEmpty(body.role)) # <<>>
              THEN JStr(trim(StringOrEmpty(body.role))) ELSE JNull,
     rating |-> NumberOrNullIfUndefined(body.rating),
     sort_order |-> NumberOrNullIfUndefined(body.sortOrder),
     is_active |-> IF Present(body.isActive) THEN Boolean(body.isActive) ELSE TRUE]

\* admin.js:429-453: from the gate's return to the await of the insert
postTestimonials_enter(body) ==
    IF testimonialOf(body).name = <<>> THEN Deny(400, <<"name is required">>)
    ELSE IF testimonialOf(body).quote = <<>> THEN Deny(400, <<"quote is required">>)
    ELSE IF ~validRating(testimonialOf(body).rating)
         THEN Deny(400, <<"rating must be between 1 and 5">>)
    ELSE IF ~validSortOrder(testimonialOf(body).sort_order)
         THEN Deny(400, <<"sortOrder must be a number">>)
    ELSE IF ~createServiceClient.ok
         THEN Deny(500, MissingEnv(createServiceClient.missing))
    ELSE Eff("insertTestimonial", <<>>, <<"testimonials.insert">>)

\* admin.js:482-500: the patch, a value for each field present in the body
testimonialPatch(body) ==
    [f \in {g \in {"name", "quote", "role", "rating", "sort_order", "is_active"} :
              CASE g = "name" -> Present(body.name)
                [] g = "quote" -> Present(body.quote)
                [] g = "role" -> Present(body.role)
                [] g = "rating" -> Present(body.rating)
                [] g = "sort_order" -> Present(body.sortOrder)
                [] OTHER -> Present(body.isActive)} |->
        CASE f = "name" -> trim(StringOrEmpty(body.name))
          [] f = "quote" -> trim(StringOrEmpty(body.quote))
          [] f = "role" -> IF JsTruthy(body.role)
                           THEN JStr(trim(StringOrEmpty(body.role))) ELSE JNull
          [] f = "rating" -> NumberOrNullIfNull(body.rating)
          [] f = "sort_order" -> NumberOrNullIfNull(body.sortOrder)
          [] OTHER -> Boolean(body.isActive)]

\* admin.js:479-513: from the gate's return to the await of the update
patchTestimonials_enter(body) ==
    IF idOf(body) = <<>> THEN Deny(400, <<"id is required">>)
    ELSE IF Present(body.rating) /\ ~validRating(NumberOrNullIfNull(body.rating))
         THEN Deny(400, <<"rating must be between 1 and 5">>)
    ELSE IF Present(body.sortOrder)
            /\ ~validSortOrder(NumberOrNullIfNull(body.sortOrder))
         THEN Deny(400, <<"sortOrder must be a number">>)
    ELSE IF DOMAIN testimonialPatch(body) = {}
         THEN Deny(400, <<"No fields to update">>)
    ELSE IF ~createServiceClient.ok
         THEN Deny(500, MissingEnv(createServiceClient.missing))
    ELSE Eff("updateTestimonial", <<>>, <<"testimonials.update">>)

handler_enter(kind, body) ==
    CASE kind = "POST /scrap-rates" -> postScrapRates_enter(body)
      [] kind = "POST /site-stats" -> postSiteStats_enter(body)
      [] kind = "PATCH /site-stats/:id" -> patchSiteStats_enter(body)
      [] kind = "POST /testimonials" -> postTestimonials_enter(body)
      [] kind = "PATCH /testimonials/:id" -> patchTestimonials_enter(body)
      [] OTHER -> getScrapTypes_enter

\* Every failure answered 500.
storeFailure_always500(o) == Deny(500, <<o.msg>>)

\* admin.js:238, 248 and 113, 143: a returned {error} is a 400 with the store's
\* message; a rejected promise lands in the catch, a 500.
storeFailure(o) ==
    IF o.k = "error" THEN Deny(400, <<o.msg>>) ELSE Deny(500, <<o.msg>>)

\* admin.js:240-245
newRow(body, t) ==
    RateRow(scrapTypeIdOf(body), ratePerKgOf(body).n, TRUE, Stamp(t))

\* What the handler of request r does to its own variables.
Apply(r, e) ==
    /\ pc' = [pc EXCEPT ![r] = e.pc]
    /\ res' = [res EXCEPT ![r] = @ \o e.send]
    /\ calls' = [calls EXCEPT ![r] = @ \o e.call]

\* A call of request r settles with outcome o.
Settle(r, o) ==
    /\ faults' = IF o.fault THEN faults - 1 ELSE faults
    /\ outs' = [outs EXCEPT ![r] = Append(@, o)]

\* The instants new Date() may show: the clock has moved on or it has not.
ClockReads == {t \in {now, now + 1} : t <= MaxClock}

-----------------------------------------------------------------------------
(* The handlers, one action per resumption                                 *)

\* A request arrives; its handler runs requireAdmin up to the first await.
\* Slots are taken in order.  The body is drawn where the handler first reads
\* it (admin.js:222).
Arrive(r) ==
    /\ pc[r] = "idle"
    /\ IF r = 1 THEN TRUE ELSE pc[r - 1] # "idle"
    /\ \E c \in callers :
          /\ req' = [req EXCEPT ![r] = Inbound(c.kind, c.bearer)]
          /\ Apply(r, requireAdmin_enter(Inbound(c.kind, c.bearer)))
    /\ UNCHANGED <<env, callers, site_stats, testimonials, profiles, scrap_rates, now, principal, userId, row,
                   outs, faults, rin, latest, resolved>>

\* anon.auth.getUser() settles (admin.js:35).
GetUserReturns(r) ==
    /\ pc[r] = "getUser"
    /\ \E o \in GetUserOutcomes(req[r].bearer) :
          /\ Settle(r, o)
          /\ userId' = [userId EXCEPT ![r] = IF o.k = "data" THEN o.userId ELSE NULL]
          /\ Apply(r, requireAdmin_afterGetUser(o))
    /\ UNCHANGED <<env, callers, site_stats, testimonials, profiles, scrap_rates, now, req, principal, row, rin, latest,
                   resolved>>

\* The role lookup settles (admin.js:53-57); an admitted request goes on into
\* its handler, up to the handler's first await.
RoleLookupReturns(r) ==
    /\ pc[r] = "roleLookup"
    /\ \E o \in StoreOutcomes :
          /\ Settle(r, o)
          /\ IF requireAdmin_afterRoleLookup(o, profiles[userId[r]]).pc # "admitted"
             THEN /\ Apply(r, requireAdmin_afterRoleLookup(o, profiles[userId[r]]))
                  /\ UNCHANGED <<req, principal>>
             ELSE \E b \in Bodies(req[r].kind) :
                  /\ req' = [req EXCEPT ![r].body = b]
                  /\ principal' = [principal EXCEPT ![r] = userId[r]]
                  /\ Apply(r, handler_enter(req[r].kind, b))
    /\ UNCHANGED <<env, callers, site_stats, testimonials, profiles, scrap_rates, now, userId, row, rin, latest, resolved>>

\* The store runs the deactivation (admin.js:233-237), or fails it.
StoreDeactivate(r) ==
    /\ pc[r] = "deactivate"
    /\ \E o \in StoreOutcomes :
          /\ Settle(r, o)
          /\ IF o.k = "data"
             THEN /\ scrap_rates' = UpdateDeactivate(scrap_rates,
                                                     scrapTypeIdOf(req[r].body))
                  /\ Apply(r, Eff("deactivated", <<>>, <<>>))
             ELSE /\ UNCHANGED scrap_rates
                  /\ Apply(r, storeFailure(o))
    /\ UNCHANGED <<env, callers, site_stats, testimonials, profiles, now, req, principal, userId, row, rin, latest,
                   resolved>>

\* The handler resumes after the deactivation, stamps the new row and sends the
\* insert (admin.js:238-247).
DeactivateReturns(r) ==
    /\ pc[r] = "deactivated"
    /\ \E t \in ClockReads :
          /\ now' = t
          /\ row' = [row EXCEPT ![r] = newRow(req[r].body, t)]
    /\ Apply(r, Eff("insert", <<>>, <<"scrap_rates.insert">>))
    /\ UNCHANGED <<env, callers, site_stats, testimonials, profiles, scrap_rates, req, principal, userId, outs,
                   faults, rin, latest, resolved>>

\* The store runs the insert, or fails it, and the handler answers
\* (admin.js:247-257).
InsertReturns(r) ==
    /\ pc[r] = "insert"
    /\ \E o \in StoreOutcomes :
          /\ Settle(r, o)
          /\ IF o.k = "data"
             THEN /\ scrap_rates' = InsertRow(scrap_rates, row[r])
                  /\ Apply(r, Reply(201))
             ELSE /\ UNCHANGED scrap_rates
                  /\ Apply(r, storeFailure(o))
    /\ UNCHANGED <<env, callers, site_stats, testimonials, profiles, now, req, principal, userId, row, rin, latest,
                   resolved>>

\* The scrap_types query settles; the handler calls getActiveRateByType
\* (admin.js:139-145).
SelectTypesReturns(r) ==
    /\ pc[r] = "selectTypes"
    /\ \E o \in StoreOutcomes :
          /\ Settle(r, o)
          /\ Apply(r, IF o.k = "data"
                      THEN Eff("selectRates", <<>>, <<"scrap_rates.select">>)
                      ELSE storeFailure(o))
    /\ UNCHANGED <<env, callers, site_stats, testimonials, profiles, scrap_rates, now, req, principal, userId, row, rin,
                   latest, resolved>>

\* The active-rows query settles, in whatever order the store returns the rows;
\* getActiveRateByType reduces them and the handler answers (admin.js:77-95,
\* 147-160).  A returned {error} is rethrown (admin.js:82) into the catch.
SelectRatesReturns(r) ==
    /\ pc[r] = "selectRates"
    /\ \E o \in StoreOutcomes :
          /\ Settle(r, o)
          /\ IF o.k = "data"
             THEN \E ord \in Orders(ActiveIdx(scrap_rates)) :
                  /\ rin' = [i \in DOMAIN ord |-> scrap_rates[ord[i]]]
                  /\ latest' = getActiveRateByType([i \in DOMAIN ord |->
                                                        scrap_rates[ord[i]]])
                  /\ Apply(r, Reply(200))
             ELSE /\ UNCHANGED <<rin, latest>>
                  /\ Apply(r, Deny(500, <<o.msg>>))
    /\ UNCHANGED <<env, callers, site_stats, testimonials, profiles, scrap_rates, now, req, principal, userId, row,
                   resolved>>

\* insert([row]): the store gives the row its id and, by the column defaults,
\* created_at = updated_at = now() (005_site_content_tables.sql).
InsertSiteRow(rows, fields, t) ==
    Append(rows, [id |-> NatToStr(Len(rows) + 1), created_at |-> t,
                  updated_at |-> t] @@ fields)

\* The trigger touch_updated_at, before update, for each row.
touch_updated_at(new, t) == [new EXCEPT !.updated_at = t]

\* Every row with the id updated.
UpdateById_anyId(rows, id, patch, t) ==
    [i \in 1..Len(rows) |-> touch_updated_at(patch @@ rows[i], t)]

\* update(patch).eq('id', id)
UpdateById(rows, id, patch, t) ==
    [i \in 1..Len(rows) |->
        IF rows[i].id = id THEN touch_updated_at(patch @@ rows[i], t) ELSE rows[i]]

\* maybeSingle(): the updated row, or null when no row has the id.
Matched(rows, id) == \E i \in 1..Len(rows) : rows[i].id = id

\* The store runs the insert of POST /site-stats, or fails it, and the handler
\* answers (admin.js:312-332).
InsertStatReturns(r) ==
    /\ pc[r] = "insertStat"
    /\ \E o \in StoreOutcomes :
          /\ Settle(r, o)
          /\ IF o.k = "data"
             THEN /\ \E t \in ClockReads :
                        /\ now' = t
                        /\ site_stats' = InsertSiteRow(site_stats, statOf(req[r].body), t)
                  /\ Apply(r, Reply(201))
             ELSE /\ UNCHANGED <<now, site_stats>>
                  /\ Apply(r, storeFailure(o))
    /\ UNCHANGED <<env, callers, testimonials, profiles, scrap_rates, req, principal,
                   userId, row, rin, latest, resolved>>

\* The store runs the update of PATCH /site-stats/:id, or fails it, and the
\* handler answers (admin.js:361-383).
UpdateStatReturns(r) ==
    /\ pc[r] = "updateStat"
    /\ \E o \in StoreOutcomes :
          /\ Settle(r, o)
          /\ IF o.k # "data"
             THEN /\ UNCHANGED <<now, site_stats>>
                  /\ Apply(r, storeFailure(o))
             ELSE IF ~Matched(site_stats, idOf(req[r].body))
             THEN /\ UNCHANGED <<now, site_stats>>
                  /\ Apply(r, Deny(404, <<"stat not found">>))
             ELSE /\ \E t \in ClockReads :
                        /\ now' = t
                        /\ site_stats' = UpdateById(site_stats, idOf(req[r].body),
                                                    statPatch(req[r].body), t)
                  /\ Apply(r, Reply(200))
    /\ UNCHANGED <<env, callers, testimonials, profiles, scrap_rates, req, principal,
                   userId, row, rin, latest, resolved>>

\* The store runs the insert of POST /testimonials, or fails it, and the
\* handler answers (admin.js:449-471).
InsertTestimonialReturns(r) ==
    /\ pc[r] = "insertTestimonial"
    /\ \E o \in StoreOutcomes :
          /\ Settle(r, o)
          /\ IF o.k = "data"
             THEN /\ \E t \in ClockReads :
                        /\ now' = t
                        /\ testimonials' = InsertSiteRow(testimonials,
                                                         testimonialOf(req[r].body), t)
                  /\ Apply(r, Reply(201))
             ELSE /\ UNCHANGED <<now, testimonials>>
                  /\ Apply(r, storeFailure(o))
    /\ UNCHANGED <<env, callers, site_stats, profiles, scrap_rates, req, principal,
                   userId, row, rin, latest, resolved>>

\* The store runs the update of PATCH /testimonials/:id, or fails it, and the
\* handler answers (admin.js:508-532).
UpdateTestimonialReturns(r) ==
    /\ pc[r] = "updateTestimonial"
    /\ \E o \in StoreOutcomes :
          /\ Settle(r, o)
          /\ IF o.k # "data"
             THEN /\ UNCHANGED <<now, testimonials>>
                  /\ Apply(r, storeFailure(o))
             ELSE IF ~Matched(testimonials, idOf(req[r].body))
             THEN /\ UNCHANGED <<now, testimonials>>
                  /\ Apply(r, Deny(404, <<"testimonial not found">>))
             ELSE /\ \E t \in ClockReads :
                        /\ now' = t
                        /\ testimonials' = UpdateById(testimonials, idOf(req[r].body),
                                                      testimonialPatch(req[r].body), t)
                  /\ Apply(r, Reply(200))
    /\ UNCHANGED <<env, callers, site_stats, profiles, scrap_rates, req, principal,
                   userId, row, rin, latest, resolved>>

Step(r) ==
    \/ Arrive(r)
    \/ GetUserReturns(r)
    \/ RoleLookupReturns(r)
    \/ StoreDeactivate(r)
    \/ DeactivateReturns(r)
    \/ InsertReturns(r)
    \/ SelectTypesReturns(r)
    \/ SelectRatesReturns(r)

-----------------------------------------------------------------------------
(* Configurations and initial states                                       *)

EnvNames ==
    {"ALLOW_ADMIN_PORTAL", "ALLOW_DEV_BYPASS",
     "SUPABASE_URL", "SUPABASE_ANON_KEY", "SUPABASE_SERVICE_ROLE_KEY",
     "ADMIN_AUTH_SUPABASE_URL", "ADMIN_AUTH_SUPABASE_ANON_KEY",
     "ADMIN_AUTH_SUPABASE_SERVICE_ROLE_KEY",
     "CUSTOMER_SUPABASE_URL", "CUSTOMER_SUPABASE_SERVICE_ROLE_KEY",
     "VENDOR_SUPABASE_URL", "VENDOR_SUPABASE_SERVICE_ROLE_KEY"}

NoEnv == [n \in EnvNames |-> Unset]
With(e, n, s) == [e EXCEPT ![n] = Val(s)]

\* Portal enabled, single-project setup.
GoodEnv ==
    With(With(With(With(NoEnv, "ALLOW_ADMIN_PORTAL", <<"T","r","u","e">>),
        "SUPABASE_URL", <<"u">>), "SUPABASE_ANON_KEY", <<"a">>),
        "SUPABASE_SERVICE_ROLE_KEY", <<"s">>)
\* Portal not enabled.
DisabledEnv == With(GoodEnv, "ALLOW_ADMIN_PORTAL", <<"0">>)
\* Enabled, but no anon key anywhere.
NoAnonKeyEnv == [GoodEnv EXCEPT !["SUPABASE_ANON_KEY"] = Unset]
\* Enabled by the dev bypass, auth project configured, data project URL missing.
NoServiceUrlEnv ==
    [With(With(With(GoodEnv, "ALLOW_ADMIN_PORTAL", <<"n","o">>),
        "ALLOW_DEV_BYPASS", <<"t","r","u","e">>),
        "ADMIN_AUTH_SUPABASE_URL", <<"w">>) EXCEPT !["SUPABASE_URL"] = Val(<<" ">>)]

GateEnvs == {GoodEnv, DisabledEnv, NoAnonKeyEnv, NoServiceUrlEnv}

\* The profiles table: stored roles by user id.
Profiles ==
    [u \in {"u-admin", "u-user", "u-norow", "u-norole"} |->
        CASE u = "u-admin" -> [found |-> TRUE, role |-> Val(<<"A","d","m","i","n">>)]
          [] u = "u-user" -> [found |-> TRUE, role |-> Val(<<"u","s","e","r">>)]
          [] u = "u-norole" -> [found |-> TRUE, role |-> Unset]
          [] OTHER -> NoRow]

NoResolution == [project |-> "none", client |-> createClient(Thrown(""), Thrown(""), NULL)]

InitRest ==
    /\ profiles = Profiles
    /\ site_stats = <<>>
    /\ testimonials = <<>>
    /\ now = 1
    /\ pc = [r \in Requests |-> "idle"]
    /\ req = [r \in Requests |-> NoReq]
    /\ principal = [r \in Requests |-> NULL]
    /\ userId = [r \in Requests |-> NULL]
    /\ row = [r \in Requests |-> NoRowBuilt]
    /\ res = [r \in Requests |-> <<>>]
    /\ calls = [r \in Requests |-> <<>>]
    /\ outs = [r \in Requests |-> <<>>]
    /\ faults = MaxFaults
    /\ rin = <<>>
    /\ latest = EmptyMap
    /\ resolved = NoResolution

\* Concurrent requests, from every kind of caller, against a store that holds
\* one active rate.
Init ==
    /\ env \in GateEnvs
    /\ callers = [kind : Kinds, bearer : Bearers]
    /\ scrap_rates = <<RateRow(IdCu, 3, TRUE, Stamp(1))>>
    /\ InitRest

Next == \E r \in Requests : Step(r)

Spec == Init /\ [][Next]_vars

\* Any store: history, several active rows for a commodity, absent timestamps.
InitRows ==
    {RateRow(IdCu, 3, TRUE, NoStamp), RateRow(IdCu, 4, TRUE, Stamp(1)),
     RateRow(IdCu, 2, FALSE, Stamp(1)), RateRow(IdFe, 3, TRUE, Stamp(1))}

InitStores ==
    UNION {[1..n -> InitRows] : n \in 0..MaxInitRows}

Quiet(r) == \A q \in Requests \ {r} : pc[q] \in {"idle", "done"}

\* setRate calls handled one after the other (no request is taken up while
\* another is in progress), against any store.
InitSeq ==
    /\ env = GoodEnv
    /\ callers = [kind : {"POST /scrap-rates"}, bearer : {NULL, "tok-admin"}]
    /\ scrap_rates \in InitStores
    /\ InitRest

NextSeq ==
    \E r \in Requests :
        \/ Quiet(r) /\ Arrive(r)
        \/ Quiet(r) /\ GetUserReturns(r)
        \/ Quiet(r) /\ RoleLookupReturns(r)
        \/ Quiet(r) /\ StoreDeactivate(r)
        \/ Quiet(r) /\ DeactivateReturns(r)
        \/ Quiet(r) /\ InsertReturns(r)

SpecSeq == InitSeq /\ [][NextSeq]_vars

\* Reads of the active rates (GET /scrap-types), against any store.
InitRead ==
    /\ env = GoodEnv
    /\ callers = [kind : {"GET /scrap-types"}, bearer : {NULL, "tok-admin"}]
    /\ scrap_rates \in InitStores
    /\ InitRest

NextRead ==
    \E r \in Requests :
        \/ Arrive(r)
        \/ GetUserReturns(r)
        \/ RoleLookupReturns(r)
        \/ SelectTypesReturns(r)
        \/ SelectRatesReturns(r)

SpecRead == InitRead /\ [][NextRead]_vars

\* Site content requests from an admin, against tables that hold two rows
\* each, as POST /site-stats and POST /testimonials create them.
InitSite ==
    /\ env = GoodEnv
    /\ callers = [kind : SiteKinds, bearer : {"tok-admin"}]
    /\ scrap_rates = <<>>
    /\ profiles = Profiles
    /\ site_stats =
          <<StatRow(<<"1">>, <<"k">>, <<"9">>, JNum(2), TRUE, 1),
            StatRow(<<"2">>, <<"j">>, <<"8">>, JNull, TRUE, 1)>>
    /\ testimonials =
          <<TestimonialRow(<<"1">>, <<"n">>, JNull, <<"q">>, JNum(5), JNull, TRUE, 1),
            TestimonialRow(<<"2">>, <<"o">>, JStr(<<"c">>), <<"p">>, JNull, JNum(1),
                           TRUE, 1)>>
    /\ now = 1
    /\ pc = [r \in Requests |-> "idle"]
    /\ req = [r \in Requests |-> NoReq]
    /\ principal = [r \in Requests |-> NULL]
    /\ userId = [r \in Requests |-> NULL]
    /\ row = [r \in Requests |-> NoRowBuilt]
    /\ res = [r \in Requests |-> <<>>]
    /\ calls = [r \in Requests |-> <<>>]
    /\ outs = [r \in Requests |-> <<>>]
    /\ faults = MaxFaults
    /\ rin = <<>>
    /\ latest = EmptyMap
    /\ resolved = NoResolution

NextSite ==
    \E r \in Requests :
        \/ Arrive(r)
        \/ GetUserReturns(r)
        \/ RoleLookupReturns(r)
        \/ InsertStatReturns(r)
        \/ UpdateStatReturns(r)
        \/ InsertTestimonialReturns(r)
        \/ UpdateTestimonialReturns(r)

SpecSite == InitSite /\ [][NextSite]_vars

\* Client constructions under every configuration of one fallback chain: the
\* endpoint names, the service-key names or the anon-key names take every
\* value (unset, empty, blank, set) while the other chains are configured.
EnvValues(n) == {Unset, Val(<<>>), Val(<<" ">>), Val(<<" ", n, "/">>)}

UrlNames ==
    <<"SUPABASE_URL", "ADMIN_AUTH_SUPABASE_URL", "CUSTOMER_SUPABASE_URL",
      "VENDOR_SUPABASE_URL">>
ServiceKeyNames ==
    <<"SUPABASE_SERVICE_ROLE_KEY", "ADMIN_AUTH_SUPABASE_SERVICE_ROLE_KEY",
      "CUSTOMER_SUPABASE_SERVICE_ROLE_KEY", "VENDOR_SUPABASE_SERVICE_ROLE_KEY">>
AnonKeyNames == <<"SUPABASE_ANON_KEY", "ADMIN_AUTH_SUPABASE_ANON_KEY">>

\* Every assignment of values to the names of one chain, over a base.
Vary(base, names) ==
    {[n \in EnvNames |->
        IF \E i \in DOMAIN names : names[i] = n
        THEN f[CHOOSE i \in DOMAIN names : names[i] = n]
        ELSE base[n]] :
     f \in [DOMAIN names -> UNION {EnvValues(names[i]) : i \in DOMAIN names}]}

ResolveEnvs ==
    Vary(GoodEnv, UrlNames) \cup Vary(GoodEnv, ServiceKeyNames)
        \cup Vary(GoodEnv, AnonKeyNames)

Projects == {"default", "auth", "customer", "vendor", "bearer"}

construct(p) ==
    CASE p = "default" -> createServiceClient
      [] p = "auth" -> createAuthServiceClient
      [] p = "customer" -> createCustomerServiceClient
      [] p = "vendor" -> createVendorServiceClient
      [] OTHER -> createAnonClientWithJwt("tok-admin")

\* One of the exported factories is called.
Construct(p) ==
    /\ resolved' = [project |-> p, client |-> construct(p)]
    /\ UNCHANGED <<env, callers, site_stats, testimonials, profiles, scrap_rates, now, pc, req, principal,
                   userId, row, res, calls, outs, faults, rin, latest>>

InitResolve ==
    /\ env \in ResolveEnvs
    /\ callers = {}
    /\ scrap_rates = <<>>
    /\ InitRest

NextResolve == \E p \in Projects : Construct(p)

SpecResolve == InitResolve /\ [][NextResolve]_vars

-----------------------------------------------------------------------------
(* Vocabulary of the properties                                            *)

Ids == {IdCu, IdFe}
Has(seq, x) == \E i \in DOMAIN seq : seq[i] = x
Done(r) == pc[r] = "done"
Quiescent == \A r \in Requests : pc[r] \in {"idle", "done"}
GateCalls == {"getBearerToken", "auth.getUser", "profiles.select"}
\* The calls a request made after its gate.
HandlerCalls(r) == {i \in DOMAIN calls[r] : calls[r][i] \notin GateCalls}
\* The setRate requests that reached the store for commodity c.
Touched(c) ==
    {r \in Requests : /\ Has(calls[r], "scrap_rates.update")
                      /\ scrapTypeIdOf(req[r].body) = c}
Succeeded(r) == Done(r) /\ res[r] = <<Response(201, <<>>)>>
NActive(c) == Cardinality(ActiveOf(scrap_rates, c))

\* s equals t up to the case of its letters.
SameIgnoringCase(s, t) ==
    /\ Len(s) = Len(t)
    /\ \A i \in 1..Len(s) :
          \/ s[i] = t[i]
          \/ \E k \in 1..26 : {s[i], t[i]} = {UpperLetters[k], LowerLetters[k]}

\* The stored role of user u is "admin", compared case-insensitively.
StoredAdmin(u) ==
    /\ profiles[u].found
    /\ profiles[u].role.set
    /\ SameIgnoringCase(profiles[u].role.s, S_admin)

-----------------------------------------------------------------------------
(* Claims                                                                  *)

\* C1: in every reachable state of the rate store, under any number of POST
\* /scrap-rates requests that run their deactivate and insert steps as two
\* store operations, each commodity id has at most one rate record with
\* active = true.  (Violated: two requests that both deactivate before either
\* inserts leave two active rows.)
C1_AtMostOneActive == \A c \in Ids : NActive(c) <= 1

C7_ZeroActiveInFlight ==
    \E c \in Ids :
        /\ Cardinality({r \in Touched(c) : ~Done(r)}) = 2
        /\ NActive(c) = 0

\* C3: a request whose verified identity has a stored role other than "admin"
\* (compared case-insensitively; a missing profile row or a missing role
\* included), as returned by the role lookup, is answered 403, gets no
\* principal, and its handler makes no call on the data service; a handler
\* makes a data-service call of its own only once requireAdmin has returned
\* the principal of that request, whose stored role is "admin".
C3_NonAdminDenied ==
    \A r \in Requests :
        /\ ( /\ userId[r] # NULL
             /\ Len(outs[r]) >= 2
             /\ outs[r][2].k = "data"
             /\ ~StoredAdmin(userId[r]) )
            => /\ Done(r)
               /\ res[r] = <<Response(403, <<"Admin access required">>)>>
               /\ principal[r] = NULL
               /\ HandlerCalls(r) = {}
        /\ HandlerCalls(r) # {}
            => /\ principal[r] # NULL
               /\ principal[r] = userId[r]
               /\ principal[r] = TokenUser(req[r].bearer)
               /\ StoredAdmin(principal[r])

\* A verified user without a profile row and one without a role were both
\* answered 403.
C3_NonAdminSeen ==
    /\ \E r \in Requests : userId[r] = "u-norow" /\ Done(r) /\ res[r][1].status = 403
    /\ \E r \in Requests : userId[r] = "u-norole" /\ Done(r) /\ res[r][1].status = 403

\* C4: with the admin surface not enabled the gate answers 403 without reading
\* the bearer credential and without any call to the identity verifier or the
\* data service; with the surface enabled and no bearer credential it answers
\* 401 having read the header only, before any identity-verifier or
\* data-service call.
C4_DeniesBeforeAnyCall ==
    \A r \in Requests :
        pc[r] # "idle" =>
            /\ ~isAdminPortalAllowed
                => /\ Done(r)
                   /\ res[r] = <<Response(403, <<"Admin portal is disabled on server">>)>>
                   /\ calls[r] = <<>>
                   /\ outs[r] = <<>>
            /\ (isAdminPortalAllowed /\ req[r].bearer = NULL)
                => /\ Done(r)
                   /\ res[r] = <<Response(401, <<"Missing Authorization: Bearer <token>">>)>>
                   /\ calls[r] = <<"getBearerToken">>
                   /\ outs[r] = <<>>

\* With the surface enabled, a request without a bearer credential was
\* answered 401.
C4_MissingBearerSeen ==
    \E r \in Requests :
        isAdminPortalAllowed /\ req[r].kind # "none" /\ req[r].bearer = NULL
            /\ Done(r) /\ res[r][1].status = 401

\* The gate ended request r with this one response, having made exactly
\* these calls, and returned no principal.
GateEnded(r, status, error, made) ==
    /\ Done(r)
    /\ res[r] = <<Response(status, error)>>
    /\ calls[r] = made
    /\ principal[r] = NULL

\* C5: the gate stops at its first failing step, with that step's code: a
\* rejected credential or an absent user id gives 401; an exception during
\* identity verification, a credential-resolution failure included, gives 500;
\* a role-lookup error returned by the store gives 400 with the store's
\* message; an exception during the role lookup gives 500.  Exactly one
\* response is sent, no later step runs, no principal is returned.
C5_TerminalOnFirstFailure ==
    \A r \in Requests :
        /\ Len(res[r]) <= 1
        /\ Done(r) <=> Len(res[r]) = 1
        /\ (pc[r] # "idle" /\ isAdminPortalAllowed /\ req[r].bearer # NULL
                /\ ~createAnonClientWithJwt(req[r].bearer).ok)
            => GateEnded(r, 500,
                   MissingEnv(createAnonClientWithJwt(req[r].bearer).missing),
                   <<"getBearerToken">>)
        /\ Len(outs[r]) >= 1 =>
            /\ (outs[r][1].k = "error" \/ (outs[r][1].k = "data" /\ outs[r][1].userId = NULL))
                => GateEnded(r, 401, <<"Invalid or expired token">>,
                             <<"getBearerToken", "auth.getUser">>)
            /\ outs[r][1].k = "throw"
                => GateEnded(r, 500, <<outs[r][1].msg>>,
                             <<"getBearerToken", "auth.getUser">>)
            /\ (outs[r][1].k = "data" /\ outs[r][1].userId # NULL /\ ~createServiceClient.ok)
                => GateEnded(r, 500, MissingEnv(createServiceClient.missing),
                             <<"getBearerToken", "auth.getUser">>)
        /\ Len(outs[r]) >= 2 =>
            /\ outs[r][2].k = "error"
                => GateEnded(r, 400, <<outs[r][2].msg>>,
                             <<"getBearerToken", "auth.getUser", "profiles.select">>)
            /\ outs[r][2].k = "throw"
                => GateEnded(r, 500, <<outs[r][2].msg>>,
                             <<"getBearerToken", "auth.getUser", "profiles.select">>)

\* A role lookup came back with an error and the request was answered 400.
C5_LookupErrorSeen ==
    \E r \in Requests :
        Len(outs[r]) = 2 /\ outs[r][2].k = "error" /\ res[r][1].status = 400

\* The commodity id of a body is blank: absent, empty or whitespace only.
BlankId(b) ==
    \/ b.scrapTypeId.t \in {"undefined", "null"}
    \/ b.scrapTypeId.t = "string"
        /\ \A i \in 1..Len(b.scrapTypeId.s) : IsSpace(b.scrapTypeId.s[i])

\* The rate of a body is, as a number, not finite or not greater than 0.
BadRate(b) ==
    ~(Number(b.ratePerKg).t = "number" /\ Number(b.ratePerKg).n > 0)

ValidationErrors ==
    {<<Response(400, <<"scrapTypeId is required">>)>>,
     <<Response(400, <<"ratePerKg must be a positive number">>)>>}

\* A setRate request the gate admitted, with a blank commodity id or a bad rate.
Invalid(r) ==
    /\ req[r].kind = "POST /scrap-rates"
    /\ principal[r] # NULL
    /\ BlankId(req[r].body) \/ BadRate(req[r].body)

\* C8 as stated: a setRate request with a blank commodity id or a rate that is
\* not a finite number greater than 0 is rejected with a 400 validation error
\* and no data-service call is made for that request.
C8_NoDataServiceCall ==
    \A r \in Requests :
        Invalid(r) =>
            /\ Done(r) /\ res[r] \in ValidationErrors
            /\ \A i \in DOMAIN calls[r] : calls[r][i] \in {"getBearerToken", "auth.getUser"}

\* C8 as amended: such a request, once the gate has admitted it, is rejected
\* with a 400 validation error; the only data-service call made for it is the
\* gate's role lookup, which precedes validation; its handler makes no call, so
\* the rate store is not read or written by it.
C8_NoCallAfterGate ==
    \A r \in Requests :
        Invalid(r) =>
            /\ Done(r) /\ res[r] \in ValidationErrors
            /\ calls[r] = <<"getBearerToken", "auth.getUser", "profiles.select">>
            /\ row[r] = NoRowBuilt

\* Requests with a blank id and with a non-positive rate were both rejected.
C8_RejectionSeen ==
    /\ \E r \in Requests : Invalid(r) /\ BlankId(req[r].body) /\ Done(r)
    /\ \E r \in Requests : Invalid(r) /\ ~BlankId(req[r].body) /\ Done(r)

\* The last request, in order of arrival, of a non-empty set of requests.
Last(S) == CHOOSE r \in S : \A q \in S : q <= r

\* The rows the store may return for the active-rows query, in each order.
ActiveReads ==
    {[k \in DOMAIN ord |-> scrap_rates[ord[k]]] : ord \in Orders(ActiveIdx(scrap_rates))}

\* Every call made so far has completed, with 201.
AllSucceeded == Quiescent /\ \A r \in Requests : Done(r) => Succeeded(r)

\* C2: when setRate calls run one after the other and each succeeds, then
\* after any such sequence, from any store state, every commodity that was set
\* has exactly one active row; that row is the one the last setRate for the
\* commodity inserted, with its rate; every other row of the commodity, those
\* active before that call included, is inactive; and getActiveRates maps the
\* commodity to that row, in whatever order the store returns the rows.
C2_SequentialSetRate ==
    AllSucceeded =>
        \A c \in Ids :
            Touched(c) # {} =>
                \E i \in DOMAIN scrap_rates :
                    /\ ActiveOf(scrap_rates, c) = {i}
                    /\ i = Len(scrap_rates) - Cardinality({r \in Requests : r > Last(Touched(c)) /\ Done(r)})
                    /\ scrap_rates[i] = row[Last(Touched(c))]
                    /\ scrap_rates[i].rate_per_kg = Number(req[Last(Touched(c))].body.ratePerKg).n
                    /\ \A data \in ActiveReads :
                          /\ c \in DOMAIN getActiveRateByType(data)
                          /\ getActiveRateByType(data)[c] = scrap_rates[i]

\* Two setRate calls for one commodity, with different rates, have succeeded
\* one after the other on a store that held two active rows for it.
C2_TwoCallsSeen ==
    /\ AllSucceeded
    /\ Touched(IdCu) = {1, 2}
    /\ row[1].rate_per_kg # row[2].rate_per_kg
    /\ Len(scrap_rates) = 4
    /\ scrap_rates[1].scrap_type_id = IdCu /\ scrap_rates[1].rate_per_kg = 3
    /\ scrap_rates[2].scrap_type_id = IdCu /\ scrap_rates[2].rate_per_kg = 4

\* The outcome of request r's deactivation (its third settled call) and of
\* its insert (its fourth).
DeactFailed(r) ==
    Has(calls[r], "scrap_rates.update") /\ Len(outs[r]) >= 3 /\ outs[r][3].k # "data"
InsertFailed(r) ==
    Has(calls[r], "scrap_rates.insert") /\ Len(outs[r]) >= 4 /\ outs[r][4].k # "data"

\* C6: in setRate a data-service error at the deactivate step is answered 400
\* (with the store's message) and no insert is made; when the deactivation
\* succeeds and the insert fails the answer is 400 and the commodity is left
\* with no active rate; the next successful setRate for the commodity leaves
\* it with exactly one.
C6_SetRateFailures ==
    \A r \in Requests :
        /\ (DeactFailed(r) /\ outs[r][3].k = "error")
            => /\ Done(r)
               /\ res[r] = <<Response(400, <<outs[r][3].msg>>)>>
               /\ ~Has(calls[r], "scrap_rates.insert")
        /\ InsertFailed(r)
            => /\ Done(r)
               /\ outs[r][3].k = "data"
               /\ outs[r][4].k = "error" => res[r] = <<Response(400, <<outs[r][4].msg>>)>>
               /\ Last(Touched(scrapTypeIdOf(req[r].body))) = r
                    => NActive(scrapTypeIdOf(req[r].body)) = 0
               /\ ( /\ Last(Touched(scrapTypeIdOf(req[r].body))) # r
                    /\ Succeeded(Last(Touched(scrapTypeIdOf(req[r].body)))) )
                    => NActive(scrapTypeIdOf(req[r].body)) = 1

\* An insert failed with a returned error after its deactivation had emptied
\* a commodity that held active rates, and the next setRate for the commodity
\* succeeded.
C6_RepairSeen ==
    /\ InsertFailed(1) /\ outs[1][4].k = "error"
    /\ Len(scrap_rates) = 3
    /\ scrap_rates[1].scrap_type_id = scrapTypeIdOf(req[1].body)
    /\ scrapTypeIdOf(req[2].body) = scrapTypeIdOf(req[1].body)
    /\ Succeeded(2)

\* The rows of data with commodity id c.
RowsOf(data, c) == {i \in DOMAIN data : data[i].scrap_type_id = c}

\* m holds, for every commodity of data, exactly one row: a row of data for
\* that commodity whose effective-from (absent: the epoch) no other row of
\* data for the commodity exceeds.
LatestPerCommodity(m, data) ==
    /\ DOMAIN m = {data[i].scrap_type_id : i \in DOMAIN data}
    /\ \A c \in DOMAIN m :
          /\ \E i \in RowsOf(data, c) : m[c] = data[i]
          /\ \A j \in RowsOf(data, c) :
                DateOf(data[j].effective_from) <= DateOf(m[c].effective_from)

\* The rows read are the active rows of the store, each once.
ReadIsActiveRows ==
    /\ Len(rin) = Cardinality(ActiveIdx(scrap_rates))
    /\ \A i \in DOMAIN rin : rin[i].is_active
    /\ \A i \in ActiveIdx(scrap_rates) :
          Cardinality({k \in DOMAIN rin : rin[k] = scrap_rates[i]})
              = Cardinality({k \in ActiveIdx(scrap_rates) : scrap_rates[k] = scrap_rates[i]})

C9_Projection ==
    /\ LatestPerCommodity(latest, rin)
    /\ (\E r \in Requests : Done(r) /\ res[r] = <<Response(200, <<>>)>>)
        => /\ ReadIsActiveRows
           /\ DOMAIN latest = {scrap_rates[i].scrap_type_id : i \in ActiveIdx(scrap_rates)}
    /\ \A r \in Requests : \A i \in HandlerCalls(r) :
          calls[r][i] \in {"scrap_types.select", "scrap_rates.select"}

\* C9: getActiveRates returns exactly one row for every commodity id that has
\* an active row; of two active rows of a commodity with different
\* effective-from timestamps it returns the later (an absent timestamp being
\* the earliest instant), in whatever order the store returns the rows; and it
\* writes nothing to the store.
C9_LatestActiveReadOnly ==
    /\ []C9_Projection
    /\ [][scrap_rates' = scrap_rates]_vars

\* A read returned two active rows of one commodity, the later one first, and
\* the later one was kept.
C9_LaterFirstSeen ==
    /\ \E r \in Requests : Done(r) /\ res[r] = <<Response(200, <<>>)>>
    /\ Len(rin) >= 2
    /\ rin[1].scrap_type_id = rin[2].scrap_type_id
    /\ DateOf(rin[1].effective_from) > DateOf(rin[2].effective_from)
    /\ latest[rin[1].scrap_type_id] = rin[1]

\* A configuration value is blank: unset, empty or whitespace only.
NonBlank(v) == v.set /\ \E i \in 1..Len(v.s) : ~IsSpace(v.s[i])

\* The first of two values that is set and not empty.
FirstNonEmpty(a, b) == IF a.set /\ Len(a.s) > 0 THEN a ELSE b

\* For each logical project: the explicit variable of its endpoint and of its
\* key, and the value each falls back to (the legacy shared variable for the
\* auth project; the auth project's value for the customer and vendor
\* projects; nothing for the default project).
Chain(p) ==
    CASE p = "default" ->
            [url |-> "SUPABASE_URL", urlFallback |-> Unset,
             key |-> "SUPABASE_SERVICE_ROLE_KEY", keyFallback |-> Unset]
      [] p = "auth" ->
            [url |-> "ADMIN_AUTH_SUPABASE_URL", urlFallback |-> env["SUPABASE_URL"],
             key |-> "ADMIN_AUTH_SUPABASE_SERVICE_ROLE_KEY",
             keyFallback |-> env["SUPABASE_SERVICE_ROLE_KEY"]]
      [] p = "bearer" ->
            [url |-> "ADMIN_AUTH_SUPABASE_URL", urlFallback |-> env["SUPABASE_URL"],
             key |-> "ADMIN_AUTH_SUPABASE_ANON_KEY",
             keyFallback |-> env["SUPABASE_ANON_KEY"]]
      [] p = "customer" ->
            [url |-> "CUSTOMER_SUPABASE_URL",
             urlFallback |-> FirstNonEmpty(env["ADMIN_AUTH_SUPABASE_URL"],
                                           env["SUPABASE_URL"]),
             key |-> "CUSTOMER_SUPABASE_SERVICE_ROLE_KEY",
             keyFallback |-> FirstNonEmpty(env["ADMIN_AUTH_SUPABASE_SERVICE_ROLE_KEY"],
                                           env["SUPABASE_SERVICE_ROLE_KEY"])]
      [] OTHER ->
            [url |-> "VENDOR_SUPABASE_URL",
             urlFallback |-> FirstNonEmpty(env["ADMIN_AUTH_SUPABASE_URL"],
                                           env["SUPABASE_URL"]),
             key |-> "VENDOR_SUPABASE_SERVICE_ROLE_KEY",
             keyFallback |-> FirstNonEmpty(env["ADMIN_AUTH_SUPABASE_SERVICE_ROLE_KEY"],
                                           env["SUPABASE_SERVICE_ROLE_KEY"])]

\* Resolution as C10 states it: the explicit value when it is not blank, else
\* the fallback when that is present, else a failure naming the variable.
StatedResolution(name, fallback) ==
    IF NonBlank(env[name]) THEN Returned(env[name].s)
    ELSE IF NonBlank(fallback) THEN Returned(fallback.s)
    ELSE Thrown(name)

\* Resolution as amended: the fallback is used only when the explicit variable
\* is unset; an explicit variable that is set but blank is a failure.
AmendedResolution(name, fallback) ==
    IF NonBlank(env[name]) THEN Returned(env[name].s)
    ELSE IF ~env[name].set /\ NonBlank(fallback) THEN Returned(fallback.s)
    ELSE Thrown(name)

\* The client built is the one the two resolutions give: the endpoint is
\* resolved first and a failure ends the construction.
Built(client, url, key) ==
    IF ~url.ok THEN ~client.ok /\ client.missing = url.missing
    ELSE IF ~key.ok THEN ~client.ok /\ client.missing = key.missing
    ELSE /\ client.ok /\ client.url = url.val /\ client.key = key.val
         /\ NonBlank(Val(client.url)) /\ NonBlank(Val(client.key))

\* C10 as stated: for every logical project the resolution returns the
\* explicit value verbatim when it is set and not blank, the fallback when the
\* explicit value is blank and the fallback is present, and fails naming the
\* missing variable when both are absent or blank; it never returns a blank.
C10_FallbackOnBlank ==
    resolved.project # "none" =>
        Built(resolved.client,
              StatedResolution(Chain(resolved.project).url,
                               Chain(resolved.project).urlFallback),
              StatedResolution(Chain(resolved.project).key,
                               Chain(resolved.project).keyFallback))

\* C10 as amended: for every logical project the resolution returns the
\* explicit value verbatim when it is set and not blank, returns the fallback
\* when the explicit variable is unset and the fallback is not blank, and fails
\* naming the explicit variable otherwise: when the explicit variable is set
\* but blank (empty or whitespace only), whatever the fallback, and when both
\* are absent or blank; it never returns a blank.
C10_FallbackOnUnset ==
    resolved.project # "none" =>
        Built(resolved.client,
              AmendedResolution(Chain(resolved.project).url,
                                Chain(resolved.project).urlFallback),
              AmendedResolution(Chain(resolved.project).key,
                                Chain(resolved.project).keyFallback))

\* The customer client was constructed with its endpoint variable set to the
\* empty string and the fallback endpoint present, and the construction failed
\* naming the customer variable.
C10_ExplicitBlankSeen ==
    /\ resolved.project = "customer"
    /\ env["CUSTOMER_SUPABASE_URL"] = Val(<<>>)
    /\ NonBlank(env["SUPABASE_URL"])
    /\ ~resolved.client.ok
    /\ resolved.client.missing = "CUSTOMER_SUPABASE_URL"

\* A step of setRate on the rate store: nothing; or the deactivation of a
\* request for commodity c, which keeps every row in place and changes a row
\* only by turning the active flag of a row of c from true to false; or the
\* insert of a request for commodity c, which keeps every row and adds one row
\* of c at the end.
RetainsHistory ==
    \/ scrap_rates' = scrap_rates
    \/ \E r \in Requests :
          /\ pc[r] = "deactivate"
          /\ Len(scrap_rates') = Len(scrap_rates)
          /\ \A i \in 1..Len(scrap_rates) :
                \/ scrap_rates'[i] = scrap_rates[i]
                \/ /\ scrap_rates[i].scrap_type_id = scrapTypeIdOf(req[r].body)
                   /\ scrap_rates[i].is_active
                   /\ scrap_rates'[i] = [scrap_rates[i] EXCEPT !.is_active = FALSE]
    \/ \E r \in Requests :
          /\ pc[r] = "insert"
          /\ Len(scrap_rates') = Len(scrap_rates) + 1
          /\ SubSeq(scrap_rates', 1, Len(scrap_rates)) = scrap_rates
          /\ scrap_rates'[Len(scrap_rates')].scrap_type_id =
                scrapTypeIdOf(req[r].body)

\* Each request has added at most one row, and exactly one when it succeeded
\* (the store starts with one row).
OneRowPerSetRate ==
    /\ Len(scrap_rates) >= 1 + Cardinality({r \in Requests : Succeeded(r)})
    /\ Len(scrap_rates) <=
          1 + Cardinality({r \in Requests : Has(calls[r], "scrap_rates.insert")})

\* C12: setRate retains history: it never deletes a rate record and never
\* changes the commodity id, rate or effective-from of an existing record; for
\* commodity c it only turns the active flag of rows of c from true to false
\* and adds one new row, and it leaves every row of every other commodity
\* unchanged.
C12_HistoryRetained == []OneRowPerSetRate /\ [][RetainsHistory]_vars

\* Two setRate requests have succeeded, one for each commodity: the rate that
\* was active for the first commodity is still stored, now inactive, and the
\* active rate of the other commodity stands beside the new one.
C12_OldRowKeptInactive ==
    /\ \A r \in Requests : Succeeded(r)
    /\ scrap_rates[1] = RateRow(IdCu, 3, FALSE, Stamp(1))
    /\ \E i, j \in 1..Len(scrap_rates) :
          /\ i < j
          /\ scrap_rates[i].scrap_type_id = IdFe /\ scrap_rates[i].is_active
          /\ scrap_rates[j].scrap_type_id = IdCu /\ scrap_rates[j].is_active

\* Column f of a site row has its field in the request body (sort_order is
\* sortOrder, is_active is isActive; id and the timestamps have none).
BodyHas(body, f) ==
    CASE f \in {"id", "created_at", "updated_at"} -> FALSE
      [] f = "sort_order" -> Present(body.sortOrder)
      [] f = "is_active" -> Present(body.isActive)
      [] OTHER -> Present(body[f])

IsPatch(r) == req[r].kind \in {"PATCH /site-stats/:id", "PATCH /testimonials/:id"}

\* The body of PATCH request r has none of the fields its handler recognises.
NoRecognisedField(r) ==
    \A f \in IF req[r].kind = "PATCH /site-stats/:id"
             THEN {"label", "value", "sort_order", "is_active"}
             ELSE {"name", "quote", "role", "rating", "sort_order", "is_active"} :
        ~BodyHas(req[r].body, f)

WroteNothing(r) ==
    /\ res[r] = <<Response(400, <<"No fields to update">>)>>
    /\ HandlerCalls(r) = {}

\* An update with body on a table: every row stays in place, and a row changes
\* only when its id is the given one, and then only in the columns whose
\* field is in the body or that are exempt.
PatchedOnly(old, new, body, exempt) ==
    /\ Len(new) = Len(old)
    /\ \A i \in 1..Len(old) :
          \/ new[i] = old[i]
          \/ /\ old[i].id = idOf(body)
             /\ DOMAIN new[i] = DOMAIN old[i]
             /\ \A f \in DOMAIN old[i] \ exempt :
                   ~BodyHas(body, f) => new[i][f] = old[i][f]

\* A step on a site table: nothing, the insert of a POST, or the update of a
\* PATCH within its frame.
SiteFrame(old, new, insertAt, updateAt, exempt) ==
    \/ new = old
    \/ \E r \in Requests :
          /\ pc[r] = insertAt
          /\ Len(new) = Len(old) + 1
          /\ SubSeq(new, 1, Len(old)) = old
    \/ \E r \in Requests :
          /\ pc[r] = updateAt
          /\ PatchedOnly(old, new, req[r].body, exempt)

PatchFrame(exempt) ==
    /\ SiteFrame(site_stats, site_stats', "insertStat", "updateStat", exempt)
    /\ SiteFrame(testimonials, testimonials', "insertTestimonial",
                 "updateTestimonial", exempt)

\* An admitted PATCH whose body has no recognised field is answered 400 "No
\* fields to update" and makes no write.
NoFieldsRejected ==
    \A r \in Requests :
        IsPatch(r) /\ principal[r] # NULL /\ NoRecognisedField(r) => WroteNothing(r)

\* The same for a PATCH whose id is not blank.
NoFieldsRejectedGivenId ==
    \A r \in Requests :
        /\ IsPatch(r) /\ principal[r] # NULL /\ NoRecognisedField(r)
        /\ idOf(req[r].body) # <<>>
        => WroteNothing(r)

\* C11 as stated: a PATCH on a site stat or a testimonial changes only the
\* fields explicitly present in the request body, on the row with the given id
\* only, and leaves every other field and every other row unchanged; a PATCH
\* whose body has none of the recognised fields is rejected with 400 "No
\* fields to update" and makes no write.
C11_OnlyPresentFields == []NoFieldsRejected /\ [][PatchFrame({})]_vars

\* C11 as amended: a PATCH on a site stat or a testimonial changes, on the row
\* whose id is the given id trimmed and on no other row, only the fields
\* explicitly present in the request body and the row's updated_at, which the
\* store's trigger sets on every update; every other field stays unchanged.
\* An admitted PATCH with a non-blank id whose body has none of the recognised
\* fields is rejected with 400 "No fields to update" and makes no write.
C11_PresentFieldsAndUpdatedAt ==
    []NoFieldsRejectedGivenId /\ [][PatchFrame({"updated_at"})]_vars

\* A PATCH of site stat 1 with a label and no value has been answered 200: the
\* row has the new label, its value as before and a later updated_at, and the
\* other row is as it was.
C11_LabelPatched ==
    \E r \in Requests :
        /\ req[r].kind = "PATCH /site-stats/:id"
        /\ res[r] = <<Response(200, <<>>)>>
        /\ req[r].body.label = JStr(<<" ", "m">>)
        /\ ~Present(req[r].body.value)
        /\ site_stats[1].label = <<"m">>
        /\ site_stats[1].value = <<"9">>
        /\ site_stats[1].updated_at > site_stats[1].created_at
        /\ site_stats[2] = StatRow(<<"2">>, <<"j">>, <<"8">>, JNull, TRUE, 1)

\* A stored string is blank: empty or whitespace only.
Blank(s) == \A i \in 1..Len(s) : IsSpace(s[i])

\* The validation POST /site-stats enforces, on a stored row.
ValidStat(r) == ~Blank(r.label) /\ ~Blank(r.value)

\* The validation POST /testimonials enforces, on a stored row.
ValidTestimonial(r) ==
    /\ ~Blank(r.name)
    /\ ~Blank(r.quote)
    /\ r.rating.t = "null" \/ (r.rating.t = "number" /\ r.rating.n \in 1..5)

\* C13: after any sequence of successful POST and PATCH requests on site stats
\* and testimonials, every stored row satisfies the validation that creation
\* enforces: a site stat has a non-blank label and a non-blank value, a
\* testimonial has a non-blank name and a non-blank quote, and a testimonial's
\* rating is null or a number between 1 and 5 inclusive.
C13_StoredRowsValid ==
    /\ \A i \in 1..Len(site_stats) : ValidStat(site_stats[i])
    /\ \A i \in 1..Len(testimonials) : ValidTestimonial(testimonials[i])

====
